---- MODULE Spec2Model ----
(***************************************************************************)
(* A model of the Bollywood news transformer browser extension:            *)
(*   - the content script (content.js): getArticleTitle, getArticleBody,   *)
(*     showMessageBox, updateArticleTitle, updateArticleBody and           *)
(*     transformArticle, with the isTransformed flag;                      *)
(*   - the background service worker (background.js): the onMessage        *)
(*     listener and transformArticleWithGemini with its two API requests.  *)
(*                                                                         *)
(* Page text is a sequence of one-character strings, so that trim, split   *)
(* and join are computed as the JavaScript computes them.  Error messages  *)
(* and notification messages, which the code only concatenates, are        *)
(* strings.  Characters outside ASCII are written as named tokens          *)
(* ("<clapper>", "<notes>", "<dash>"): one sequence element each.          *)
(***************************************************************************)
EXTENDS Naturals, Sequences, FiniteSets, TLC

VARIABLES
    page,           \* the document: headings, metadata, body nodes
    isTransformed,  \* content.js line 4
    run,            \* the invocations of transformArticle
    boxes,          \* the notification elements created by showMessageBox
    channel,        \* chrome.runtime messages and their response channels
    orch,           \* the invocations of transformArticleWithGemini
    renders         \* history: the invocations that ran updateArticleTitle/Body

vars == <<page, isTransformed, run, boxes, channel, orch, renders>>

(***************************************************************************)
(* Bounds of the model.                                                    *)
(***************************************************************************)
\* invocations of transformArticle in one page lifetime
NumRuns == 2
\* h1 elements on a page the title is extracted from
MaxHeadings == 2
\* paragraph elements on a page the body is extracted from
MaxFragments == 3

(***************************************************************************)
(* Text.                                                                   *)
(***************************************************************************)
\* null / undefined where a text is expected: no character is four letters long
Null == <<"null">>

NL == "\n"

Rep(c, n) == [i \in 1..n |-> c]

\* Truthy testing for null only: the empty string passes
TruthyNotNull(t) == t # Null

\* JavaScript truthiness of a string-or-null value
Truthy(t) == t # Null /\ t # <<>>

IsSpace(c) == c \in {" ", NL}

\* String.prototype.trim: what lies between the first and the last character
\* that is not whitespace
Trim(s) ==
    LET solid == {i \in 1..Len(s) : ~IsSpace(s[i])} IN
    IF solid = {} THEN <<>>
    ELSE SubSeq(s, CHOOSE i \in solid : \A j \in solid : i <= j,
                   CHOOSE i \in solid : \A j \in solid : j <= i)

\* String.prototype.split(sep) for a one-character separator: the pieces between
\* consecutive separators, Len(s) + 1 standing for the end of the string
Split(s, sep) ==
    LET cuts == {i \in 1..Len(s) : s[i] = sep} \cup {Len(s) + 1}
        cut(k) == CHOOSE i \in cuts : Cardinality({j \in cuts : j < i}) = k - 1
    IN  [k \in 1..Cardinality(cuts) |->
            SubSeq(s, (IF k = 1 THEN 0 ELSE cut(k - 1)) + 1, cut(k) - 1)]

\* Array.prototype.join(sep)
RECURSIVE Join(_, _)
Join(parts, sep) ==
    IF parts = <<>> THEN <<>>
    ELSE IF Len(parts) = 1 THEN parts[1]
    ELSE parts[1] \o sep \o Join(Tail(parts), sep)

\* String.prototype.substring(0, Math.min(length, n))
Substring(s, n) == SubSeq(s, 1, IF Len(s) < n THEN Len(s) ELSE n)

(***************************************************************************)
(* The document.                                                           *)
(*                                                                         *)
(* page.h1s      the h1 elements in document order: the one specific       *)
(*               selector an element matches (or "h1" when it matches only *)
(*               the generic one), its textContent, whether it carries the *)
(*               inline style updateArticleTitle gives it;                 *)
(* page.ogContent the content of meta[property="og:title"], Null without   *)
(*               that tag;                                                 *)
(* page.docTitle document.title;                                           *)
(* page.nodes    the body's elements in document order: a paragraph        *)
(*               outside any container (kind "p"), a container (kind       *)
(*               "block": the selector it matches, offsetParent # null,    *)
(*               the textContent of its p descendants, its own text when   *)
(*               it has none), or a section appended by updateArticleBody  *)
(*               (kind "section");                                         *)
(* page.fontLinks the stylesheet links appended to the head.               *)
(* Containers are not nested in one another.                               *)
(***************************************************************************)
\* content.js lines 12-20
titleSelectors ==
    << "h1.artTitle", "h1[itemprop=headline]", "h1.story-title", "h1.headline",
       "h1", "meta[property=og:title]", "title" >>

\* content.js lines 54-77
articleBodySelectors ==
    << "div._3g2R-", "div[itemprop=articleBody]", "article", "div.story-content",
       "div.article-body", "div.section-article-text", "div.content-wrapper",
       "div.article-detail", "div.entry-content", "div.td-post-content",
       "div.primary-content", "div.fl-post-content", "div.inner-content",
       "div.story-element-text", "div.detail-content", "div._3MkB4",
       "div[data-story-id]", "div.article-content", "div.full_story",
       "div#content-area", "div.story_content", "div.Normal" >>

\* content.js lines 218-242
articleBodyContainerSelectors ==
    << "div[data-articlebody=1]", "div.vSlIC", "div._3g2R-", "article",
       "div.story-content", "div.article-body", "div.Normal",
       "div.section-article-text", "div.content-wrapper", "div.article-detail",
       "div.entry-content", "div.td-post-content", "div.primary-content",
       "div.fl-post-content", "div.inner-content", "div.story-element-text",
       "div.detail-content", "div._3MkB4", "div[data-story-id]",
       "div.article-content", "div.full_story", "div#content-area",
       "div.story_content" >>

\* selector.startsWith('h1')
StartsWithH1(sel) ==
    sel \in {"h1.artTitle", "h1[itemprop=headline]", "h1.story-title", "h1.headline", "h1"}

\* document.querySelector for an h1 selector: the index of the first match, 0 for null
RECURSIVE FirstH1From(_, _, _)
FirstH1From(h1s, sel, i) ==
    IF i > Len(h1s) THEN 0
    ELSE IF sel = "h1" \/ h1s[i].cls = sel THEN i
    ELSE FirstH1From(h1s, sel, i + 1)

QueryH1(p, sel) == FirstH1From(p.h1s, sel, 1)

\* document.querySelector for a container selector: the index of the first match, 0 for null
RECURSIVE FirstNodeFrom(_, _, _)
FirstNodeFrom(nodes, sel, i) ==
    IF i > Len(nodes) THEN 0
    ELSE IF nodes[i].kind # "p" /\ nodes[i].sel = sel THEN i
    ELSE FirstNodeFrom(nodes, sel, i + 1)

QueryNode(p, sel) == FirstNodeFrom(p.nodes, sel, 1)

\* element.textContent of a body node
NodeText(n) == IF n.paras = <<>> THEN n.text ELSE Join(n.paras, <<>>)

\* the for loop ended without a return (no text is eleven letters long)
Fallthrough == <<"fallthrough">>

\* the loop of getArticleTitle over titleSelectors, from the i-th selector on:
\* the value it returns, or "fallthrough" when the loop ends without returning
RECURSIVE TitleLoop(_, _)
TitleLoop(p, i) ==
    IF i > Len(titleSelectors) THEN Fallthrough
    ELSE LET selector == titleSelectors[i]
             e == IF StartsWithH1(selector) THEN QueryH1(p, selector) ELSE 0
         IN  IF StartsWithH1(selector) /\ e # 0 /\ p.h1s[e].text # <<>>
             THEN Trim(p.h1s[e].text)
             ELSE TitleLoop(p, i + 1)

getArticleTitle(p) ==
    IF TitleLoop(p, 1) # Fallthrough THEN TitleLoop(p, 1)
    ELSE IF Truthy(p.ogContent) THEN Trim(p.ogContent)
    ELSE IF Truthy(p.docTitle) THEN Trim(p.docTitle)
    ELSE Null

\* the thresholds of getArticleBody
MinParagraphChars == 50
MinLooseChars == 100
MinLooseWords == 10
MinDirectChars == 100

\* the first selector of articleBodySelectors that matches, from the i-th on: the
\* index of the matched node, 0 when none matches
RECURSIVE BodyContainerFrom(_, _)
BodyContainerFrom(p, i) ==
    IF i > Len(articleBodySelectors) THEN 0
    ELSE IF QueryNode(p, articleBodySelectors[i]) # 0
         THEN QueryNode(p, articleBodySelectors[i])
         ELSE BodyContainerFrom(p, i + 1)

\* the elements document.querySelectorAll('p, div.Normal') finds in one body node
NodeParagraphs(n) ==
    IF n.kind = "p" THEN <<n.text>>
    ELSE IF n.sel = "div.Normal" THEN <<NodeText(n)>> \o n.paras
    ELSE n.paras

RECURSIVE AllParagraphs(_)
AllParagraphs(nodes) ==
    IF nodes = <<>> THEN <<>>
    ELSE NodeParagraphs(Head(nodes)) \o AllParagraphs(Tail(nodes))

TrimAll(ts) == [i \in 1..Len(ts) |-> Trim(ts[i])]

KeepLoose(text) ==
    Len(text) > MinLooseChars /\ Len(Split(text, " ")) > MinLooseWords

\* KeepInContainer letting a text of exactly the threshold through
KeepInContainerAtLeast(text) == Len(text) >= MinParagraphChars

KeepInContainer(text) == Len(text) > MinParagraphChars

\* the articleText array getArticleBody collects
articleTextOf(p) ==
    LET m == BodyContainerFrom(p, 1) IN
    IF m = 0
    THEN SelectSeq(TrimAll(AllParagraphs(p.nodes)), KeepLoose)
    ELSE IF p.nodes[m].paras # <<>>
    THEN SelectSeq(TrimAll(p.nodes[m].paras), KeepInContainer)
    ELSE IF Len(Trim(NodeText(p.nodes[m]))) > MinDirectChars
    THEN <<Trim(NodeText(p.nodes[m]))>>
    ELSE <<>>

getArticleBody(p) ==
    IF Len(articleTextOf(p)) > 0
    THEN Join(articleTextOf(p), <<NL, NL>>)
    ELSE Null

(***************************************************************************)
(* Rendering.                                                              *)
(***************************************************************************)
\* `<clapper> ${newTitle} <notes>`, content.js line 193
DecoratedTitle(newTitle) == <<"<clapper>", " ">> \o newTitle \o <<" ", "<notes>">>

\* mainTitleElement, content.js lines 186-190: the index of the h1 to rewrite
mainTitleElementOf(p) ==
    IF QueryH1(p, "h1.artTitle") # 0 THEN QueryH1(p, "h1.artTitle")
    ELSE IF QueryH1(p, "h1[itemprop=headline]") # 0 THEN QueryH1(p, "h1[itemprop=headline]")
    ELSE IF QueryH1(p, "h1.story-title") # 0 THEN QueryH1(p, "h1.story-title")
    ELSE IF QueryH1(p, "h1.headline") # 0 THEN QueryH1(p, "h1.headline")
    ELSE 1

\* the page after updateArticleTitle(newTitle)
updateArticleTitle(p, newTitle) ==
    IF Len(p.h1s) > 0
    THEN [p EXCEPT !.h1s[mainTitleElementOf(p)] =
                [@ EXCEPT !.text = DecoratedTitle(newTitle), !.styled = TRUE]]
    ELSE [p EXCEPT !.docTitle = newTitle]

\* the signature line, content.js line 286
Signature ==
    << "<dash>", " ", "Y", "o", "u", "r", " ", "B", "o", "l", "l", "y", "w",
       "o", "o", "d", " ", "N", "e", "w", "s", " ", "T", "r", "a", "n", "s",
       "f", "o", "r", "m", "e", "r" >>

\* the thresholds of updateArticleBody, content.js line 252
MinContainerChars == 200
MinVSlICChars == 50

\* the test of content.js lines 248-252 on the node a selector matched
Qualifies(n, selector) ==
    /\ n.visible
    /\ \/ n.paras # <<>>
       \/ Len(Trim(NodeText(n))) > MinContainerChars
       \/ selector = "div.vSlIC" /\ Len(Trim(NodeText(n))) > MinVSlICChars

\* the loop of content.js lines 245-258 from the i-th selector on: the index of
\* the node chosen, 0 when none qualifies
RECURSIVE RenderContainerFrom(_, _)
RenderContainerFrom(p, i) ==
    IF i > Len(articleBodyContainerSelectors) THEN 0
    ELSE LET selector == articleBodyContainerSelectors[i]
             e == QueryNode(p, selector)
         IN  IF e # 0 /\ Qualifies(p.nodes[e], selector)
             THEN e
             ELSE RenderContainerFrom(p, i + 1)

NonBlank(line) == Trim(line) # <<>>

\* songLyrics.split('\n').filter(line => line.trim() !== ''), content.js line 276
LyricLines(songLyrics) == SelectSeq(Split(songLyrics, NL), NonBlank)

\* the page after updateArticleBody(songLyrics)
updateArticleBody(p, songLyrics) ==
    LET m == RenderContainerFrom(p, 1) IN
    IF m # 0
    THEN [p EXCEPT !.nodes[m] = [@ EXCEPT !.paras = Append(LyricLines(songLyrics), Signature),
                                          !.text = <<>>],
                   !.fontLinks = @ + 1]
    ELSE [p EXCEPT !.nodes = Append(@, [kind |-> "section",
                                        sel |-> "div.bollywood-content-appended",
                                        visible |-> TRUE,
                                        paras |-> <<Signature>>,
                                        text |-> songLyrics])]

(***************************************************************************)
(* Notifications.  boxes holds every element showMessageBox has created,   *)
(* in creation order: its message and colour class, whether it is still in *)
(* the document, whether its opacity was set to 0, and which of its timers *)
(* is pending ("t5000": the auto-dismiss delay, "t500": the fade-out       *)
(* delay, "none").                                                         *)
(***************************************************************************)
\* the delays of the two timers, in milliseconds
AutoDismissDelay == 5000
FadeDelay == 500

ColourClass(type) == IF type = "success" THEN "bg-green-500" ELSE "bg-red-500"

\* existingBox.remove(): getElementById finds the first element with the id
RECURSIVE RemoveFirstInDom(_)
RemoveFirstInDom(bs) ==
    IF bs = <<>> THEN <<>>
    ELSE IF Head(bs).inDom THEN <<[Head(bs) EXCEPT !.inDom = FALSE]>> \o Tail(bs)
    ELSE <<Head(bs)>> \o RemoveFirstInDom(Tail(bs))

\* showMessageBox without the removal of the element already shown
showMessageBoxKeepsExisting(bs, message, type) ==
    Append(bs,
           [message |-> message, class |-> ColourClass(type), inDom |-> TRUE,
            faded |-> FALSE, timer |-> "t5000", delay |-> AutoDismissDelay])

\* the boxes after showMessageBox(message, type)
showMessageBox(bs, message, type) ==
    Append(RemoveFirstInDom(bs),
           [message |-> message, class |-> ColourClass(type), inDom |-> TRUE,
            faded |-> FALSE, timer |-> "t5000", delay |-> AutoDismissDelay])

(***************************************************************************)
(* The generative-language API as the service worker sees it.              *)
(*                                                                         *)
(* A parsed reply body is a record: whether it has an error property,      *)
(* whether it has a candidates property, and the candidates; a candidate:  *)
(* whether it has content, whether the content has parts, and the parts;   *)
(* a part: whether it has a text property, and the text.                   *)
(***************************************************************************)
Part(t) == [hasText |-> TRUE, text |-> t]
PartNoText == [hasText |-> FALSE, text |-> <<>>]
Candidate(parts) == [hasContent |-> TRUE, hasParts |-> TRUE, parts |-> parts]
CandidateNoContent == [hasContent |-> FALSE, hasParts |-> FALSE, parts |-> <<>>]
CandidateNoParts == [hasContent |-> TRUE, hasParts |-> FALSE, parts |-> <<>>]
Body(cands) == [hasError |-> FALSE, hasCandidates |-> TRUE, candidates |-> cands]
ErrorBody == [hasError |-> TRUE, hasCandidates |-> FALSE, candidates |-> <<>>]

\* generated texts the API may return
TextM == <<" ", "M", NL>>
TextL == <<"L", NL, NL, " ", NL, "R", " ">>
TextX == <<"X">>

\* the reply bodies JSON parsing may yield
ApiBodies ==
    { ErrorBody,
      Body(<<>>),
      Body(<<CandidateNoContent>>),
      Body(<<CandidateNoParts>>),
      Body(<<Candidate(<<>>)>>),
      Body(<<Candidate(<<PartNoText>>)>>),
      Body(<<Candidate(<<Part(TextM)>>)>>),
      Body(<<Candidate(<<Part(TextL), Part(TextX)>>), Candidate(<<Part(TextX)>>)>>) }

\* the exceptions fetch may reject with (a network failure), with and without a message
NetworkErrors == { [name |-> "TypeError", message |-> "Failed to fetch"],
                   [name |-> "AbortError", message |-> ""] }

\* the exception response.json() rejects with on a body that is not JSON
ParseError == [name |-> "SyntaxError", message |-> "Unexpected token < in JSON at position 0"]

\* the exception of calling .trim() on an undefined text
TrimOfUndefined ==
    [name |-> "TypeError", message |-> "Cannot read properties of undefined (reading 'trim')"]

\* background.js line 63
DefaultMovieTitle ==
    << "A", " ", "F", "i", "l", "m", "y", " ", "T", "w", "i", "s", "t" >>

\* background.js line 101
DefaultSongLyrics ==
    << "A", " ", "m", "e", "l", "o", "d", "i", "o", "u", "s", " ", "t", "a",
       "l", "e", " ", "a", "w", "a", "i", "t", "s", ".", ".", "." >>

\* the condition of background.js lines 70-72 and 108-110
HasFirstPart(result) ==
    /\ result.hasCandidates /\ Len(result.candidates) > 0
    /\ result.candidates[1].hasContent /\ result.candidates[1].hasParts
    /\ Len(result.candidates[1].parts) > 0

\* whether background.js line 73 / 111 throws on this reply: .trim() of undefined
ExtractThrows(result) ==
    HasFirstPart(result) /\ ~result.candidates[1].parts[1].hasText

\* Extract without the default: the variable starts empty
ExtractNoDefault(result, default) ==
    IF HasFirstPart(result)
    THEN Trim(result.candidates[1].parts[1].text)
    ELSE <<>>

\* the generated text after background.js lines 63-77 / 101-115, when nothing throws
Extract(result, default) ==
    IF HasFirstPart(result)
    THEN Trim(result.candidates[1].parts[1].text)
    ELSE default

\* the character budgets of the two prompts, background.js lines 45 and 83
MovieExcerptChars == 500
SongExcerptChars == 1000
\* maxOutputTokens, background.js lines 51 and 89
MovieMaxOutputTokens == 50
SongMaxOutputTokens == 500
\* temperature in tenths, background.js lines 50 and 88
MovieTemperatureTenths == 7
SongTemperatureTenths == 9

\* the request of background.js lines 42-60
MovieCall(articleTitle, articleBody) ==
    [prompt |-> "movie", articleTitle |-> articleTitle,
     excerpt |-> Len(Substring(articleBody, MovieExcerptChars)),
     temperature |-> MovieTemperatureTenths, maxOutputTokens |-> MovieMaxOutputTokens]

\* SongCall sending the title payload again
SongCallSendsMoviePayload(articleTitle, articleBody) ==
    [prompt |-> "movie", articleTitle |-> articleTitle,
     excerpt |-> Len(Substring(articleBody, MovieExcerptChars)),
     temperature |-> MovieTemperatureTenths, maxOutputTokens |-> MovieMaxOutputTokens]

\* the request of background.js lines 80-98
SongCall(articleTitle, articleBody) ==
    [prompt |-> "song", articleTitle |-> articleTitle,
     excerpt |-> Len(Substring(articleBody, SongExcerptChars)),
     temperature |-> SongTemperatureTenths, maxOutputTokens |-> SongMaxOutputTokens]

\* CatchResponse without the fallback string
CatchResponseNoFallback(error) == [success |-> FALSE, error |-> error.message]

\* the value returned by the catch block, background.js lines 123-126
CatchResponse(error) ==
    [success |-> FALSE,
     error |-> IF error.message # "" THEN error.message
               ELSE "Network or API response parsing error."]

\* SuccessResponse with the two generated texts in each other's field
SuccessResponseSwapped(generatedMovieTitle, generatedSongLyrics) ==
    [success |-> TRUE, movieTitle |-> generatedSongLyrics, songLyrics |-> generatedMovieTitle]

\* the value returned at background.js lines 117-121
SuccessResponse(generatedMovieTitle, generatedSongLyrics) ==
    [success |-> TRUE, movieTitle |-> generatedMovieTitle, songLyrics |-> generatedSongLyrics]

\* the callback argument when the message had no receiving end
Undefined == [undefined |-> TRUE]

(***************************************************************************)
(* Pages a browser may load.                                               *)
(***************************************************************************)
H1(cls, text) == [cls |-> cls, text |-> text, styled |-> FALSE]
P(text) == [kind |-> "p", sel |-> "p", visible |-> TRUE, paras |-> <<>>, text |-> text]
Block(sel, visible, paras, text) ==
    [kind |-> "block", sel |-> sel, visible |-> visible, paras |-> paras, text |-> text]
Page(h1s, og, title, nodes) ==
    [h1s |-> h1s, ogContent |-> og, docTitle |-> title, nodes |-> nodes, fontLinks |-> 0]

Headline == <<" ", "D", "o", "g", " ", "w", "i", "n", "s", NL>>
SiteTitle == <<"N", "e", "w", "s">>
\* a paragraph of 51 characters between whitespace, one of exactly 50, a caption of 30
LongParagraph == <<" ">> \o Rep("a", MinParagraphChars + 1) \o <<NL>>
EdgeParagraph == Rep("b", MinParagraphChars)
Caption == Rep("c", 30)
\* eleven words, 109 characters
WordyParagraph == Join(Rep(Rep("w", 9), MinLooseWords + 1), <<" ">>)

\* a Times-of-India-like article: a classed headline and a container with paragraphs
PageArticle ==
    Page(<<H1("h1", SiteTitle), H1("h1.artTitle", Headline)>>, Null, SiteTitle,
         <<P(Caption),
           Block("div._3g2R-", TRUE, <<LongParagraph, Caption, EdgeParagraph, LongParagraph>>, <<>>)>>)

\* no heading and no container: og:title and loose paragraphs
PageLoose ==
    Page(<<>>, <<" ", "O", "g", " ">>, SiteTitle, <<P(WordyParagraph), P(LongParagraph)>>)

\* a container that is not displayed (offsetParent is null)
PageHidden ==
    Page(<<H1("h1", Headline)>>, Null, <<>>, <<Block("article", FALSE, <<LongParagraph>>, <<>>)>>)

\* a heading whose text is only whitespace
PageBlankHeading ==
    Page(<<H1("h1.headline", <<" ", NL>>)>>, <<"O", "g">>, SiteTitle,
         <<Block("article", TRUE, <<LongParagraph>>, <<>>)>>)

\* a headline and nothing but captions
PageNoBody ==
    Page(<<H1("h1", Headline)>>, Null, SiteTitle, <<P(Caption), Block("article", TRUE, <<Caption>>, <<>>)>>)

\* nothing at all
PageEmpty == Page(<<>>, Null, <<>>, <<>>)

Pages == {PageArticle, PageLoose, PageBlankHeading, PageNoBody, PageEmpty}

(***************************************************************************)
(* Pages for the extraction: every arrangement of a few headings and of a  *)
(* few paragraphs with texts on both sides of the thresholds.              *)
(***************************************************************************)
\* the sequences over S of length n at most
SeqsUpTo(S, n) == UNION {[1..k -> S] : k \in 0..n}

HeadingClasses == {"h1", "h1.headline", "h1.artTitle"}
\* textContent of a heading: none, whitespace only, two texts with whitespace around
HeadingTexts == {<<>>, <<" ", NL>>, <<" ", "A", " ">>, <<"B", NL>>}
HeadingElements == {H1(c, t) : c \in HeadingClasses, t \in HeadingTexts}
\* content of the og:title tag: no tag, empty, whitespace only, a text
OgContents == {Null, <<>>, <<" ">>, <<" ", "O", "g">>}
\* document.title, which the browser hands out stripped of surrounding whitespace
DocTitles == {<<>>, <<"D", "o", "c">>}

TitlePages ==
    {Page(hs, og, t, <<Block("article", TRUE, <<LongParagraph>>, <<>>)>>) :
        hs \in SeqsUpTo(HeadingElements, MaxHeadings), og \in OgContents, t \in DocTitles}

\* eleven words, exactly 100 characters
LooseEdge == Join(Rep(Rep("x", 8), MinLooseWords) \o <<Rep("x", 10)>>, <<" ">>)
\* one word of 101 characters
OneWord == Rep("y", MinLooseChars + 1)
\* ten words, 109 characters
TenWords == Join(Rep(Rep("z", 10), MinLooseWords), <<" ">>)

FragmentTexts ==
    {<<" ">>, Caption, EdgeParagraph, LongParagraph, WordyParagraph, LooseEdge, OneWord, TenWords}

Paragraphs(texts) == [k \in DOMAIN texts |-> P(texts[k])]

\* paragraphs on their own, paragraphs in a container below a caption, a
\* container with text and no paragraph, paragraphs in a block that is no
\* container for the extraction, and two containers of which the second comes
\* first in the selector list
BodyPages ==
    {Page(<<H1("h1", Headline)>>, Null, SiteTitle, nodes) :
        nodes \in {Paragraphs(ts) : ts \in SeqsUpTo(FragmentTexts, MaxFragments)}
             \cup {<<P(Caption), Block("article", TRUE, ts, <<>>)>> :
                      ts \in SeqsUpTo(FragmentTexts, MaxFragments) \ {<<>>}}
             \cup {<<Block("article", TRUE, <<>>, t)>> : t \in FragmentTexts \cup {<<>>}}
             \cup {<<Block("div.vSlIC", TRUE, <<WordyParagraph, Caption>>, <<>>), P(t)>> :
                      t \in FragmentTexts}
             \cup {<<Block("article", TRUE, <<t>>, <<>>),
                     Block("div._3g2R-", TRUE, <<LongParagraph, t>>, <<>>)>> :
                      t \in FragmentTexts}}

ExtractPages == TitlePages \cup BodyPages

(***************************************************************************)
(* State.                                                                  *)
(*                                                                         *)
(* run[i]      the i-th invocation of transformArticle: where it is        *)
(*             ("ready": not yet called; "awaiting": at the await of line  *)
(*             334; "skipped": returned at line 323; "noContent": took the *)
(*             branch of line 354; "rendered", "failed": took the branch   *)
(*             of line 344 or of line 350; "threw": ended by an            *)
(*             exception), and whether it ran the extraction;              *)
(* channel[m]  the message m of chrome.runtime.sendMessage: its state      *)
(*             ("unsent", "sent", "open": the listener returned true,      *)
(*             "replied": the reply is on its way to the sender's          *)
(*             callback, "closed"), the request, the reply, what the       *)
(*             listener returned, how often sendResponse was called;       *)
(* orch[m]     the invocation of transformArticleWithGemini for message m: *)
(*             where it is ("idle", "fetch1", "json1", "fetch2", "json2",  *)
(*             "done"), its local generatedMovieTitle while it runs (the   *)
(*             reply bodies are not read again once the generated text is  *)
(*             taken from them), and the API requests it issued.           *)
(* The message of the i-th invocation of transformArticle is message i;    *)
(* message OtherId is the one other senders have in flight: they send the  *)
(* next when the listener has dealt with the last.                         *)
(***************************************************************************)
RunIds == 1..NumRuns
OtherId == NumRuns + 1
Msgs == RunIds \cup {OtherId}

\* actions other senders put in their messages
OtherActions == {"getStatus"}

NoRequest == [action |-> "none"]
IdleOrch == [pc |-> "idle", generatedMovieTitle |-> Null, calls |-> <<>>]

Init ==
    /\ page \in Pages
    /\ isTransformed = FALSE
    /\ run = [i \in RunIds |-> [pc |-> "ready", extracted |-> FALSE]]
    /\ boxes = <<>>
    /\ channel = [m \in Msgs |-> [state |-> "unsent", request |-> NoRequest,
                                  response |-> Undefined, listenerReturned |-> "none",
                                  responses |-> 0]]
    /\ orch = [m \in Msgs |-> IdleOrch]
    /\ renders = <<>>

(***************************************************************************)
(* The content script.                                                     *)
(***************************************************************************)
\* response.error || 'Unknown error', content.js line 352
ErrorText(response) ==
    IF "error" \in DOMAIN response /\ response.error # ""
    THEN response.error
    ELSE "Unknown error"

\* response && response.success, content.js line 344
IsSuccess(response) == response # Undefined /\ response.success

\* transformArticle from its call to the await of line 334 or to its return.
\* Invocations are numbered in the order they are made.
Invoke(i) ==
    /\ run[i].pc = "ready"
    /\ \A j \in RunIds : j < i => run[j].pc # "ready"
    /\ IF isTransformed
       THEN /\ run' = [run EXCEPT ![i].pc = "skipped"]
            /\ UNCHANGED <<boxes, channel>>
       ELSE LET title == getArticleTitle(page)
                body == getArticleBody(page)
            IN  IF Truthy(title) /\ Truthy(body)
                THEN /\ boxes' = showMessageBox(boxes,
                                    "Transforming article... Please wait for the magic!",
                                    "success")
                     /\ channel' = [channel EXCEPT
                                      ![i].state = "sent",
                                      ![i].request = [action |-> "transformArticle",
                                                      articleTitle |-> title,
                                                      articleBody |-> body]]
                     /\ run' = [run EXCEPT ![i] = [pc |-> "awaiting", extracted |-> TRUE]]
                ELSE /\ boxes' = showMessageBox(boxes,
                                    "Could not find enough article content to transform. Try a different article or newspaper.",
                                    "error")
                     /\ run' = [run EXCEPT ![i] = [pc |-> "noContent", extracted |-> TRUE]]
                     /\ UNCHANGED channel
    /\ UNCHANGED <<page, isTransformed, orch, renders>>

\* the branch of content.js lines 344-349
OnSuccess(i, response) ==
    /\ page' = updateArticleBody(updateArticleTitle(page, response.movieTitle),
                                 response.songLyrics)
    /\ renders' = Append(renders, i)
    /\ boxes' = showMessageBox(boxes,
                    "Article transformed into a Bollywood masterpiece!", "success")
    /\ isTransformed' = TRUE
    /\ run' = [run EXCEPT ![i].pc = "rendered"]

\* OnFailure with the flag set after the if/else instead of inside the success branch
OnFailureFlagSet(i, response) ==
    /\ boxes' = showMessageBox(boxes, "Transformation failed: " \o ErrorText(response), "error")
    /\ run' = [run EXCEPT ![i].pc = "failed"]
    /\ isTransformed' = TRUE
    /\ UNCHANGED <<page, renders>>

\* the branch of content.js lines 350-353 for a response object
OnFailure(i, response) ==
    /\ boxes' = showMessageBox(boxes, "Transformation failed: " \o ErrorText(response), "error")
    /\ run' = [run EXCEPT ![i].pc = "failed"]
    /\ UNCHANGED <<page, renders, isTransformed>>

\* OnUndefined with the flag set on the way out, whatever the reply was
OnUndefinedFlagSet(i) ==
    /\ run' = [run EXCEPT ![i].pc = "threw"]
    /\ isTransformed' = TRUE
    /\ UNCHANGED <<page, renders, boxes>>

\* the branch of content.js lines 350-353 without a response object: line 351
\* reads response.error, and the TypeError ends the function
OnUndefined(i) ==
    /\ run' = [run EXCEPT ![i].pc = "threw"]
    /\ UNCHANGED <<page, renders, boxes, isTransformed>>

\* transformArticle from the callback of line 339 to its end
Receive(i) ==
    /\ run[i].pc = "awaiting"
    /\ channel[i].state = "replied"
    /\ LET response == channel[i].response IN
         IF IsSuccess(response) THEN OnSuccess(i, response)
         ELSE IF response = Undefined THEN OnUndefined(i)
         ELSE OnFailure(i, response)
    /\ channel' = [channel EXCEPT ![i].state = "closed"]
    /\ UNCHANGED orch

\* the user clicks the close button of the notification on the page
ClickClose(b) ==
    /\ boxes[b].inDom
    /\ boxes' = [boxes EXCEPT ![b].inDom = FALSE]
    /\ UNCHANGED <<page, isTransformed, run, channel, orch, renders>>

\* the timer of content.js line 169 fires.  Timers of equal delay fire in the
\* order they were set.
AutoDismiss(b) ==
    /\ boxes[b].timer = "t5000"
    /\ \A a \in 1..(b - 1) : boxes[a].timer # "t5000"
    /\ boxes' = [boxes EXCEPT ![b].faded = TRUE, ![b].timer = "t500", ![b].delay = FadeDelay]
    /\ UNCHANGED <<page, isTransformed, run, channel, orch, renders>>

\* FadeOut removing whatever element has the id at the time, not the element the
\* timer was set for
FadeOutById(b) ==
    /\ boxes[b].timer = "t500"
    /\ \A a \in 1..(b - 1) : boxes[a].timer = "none"
    /\ boxes' = [RemoveFirstInDom(boxes) EXCEPT ![b].timer = "none"]
    /\ UNCHANGED <<page, isTransformed, run, channel, orch, renders>>

\* the timer of content.js line 171 fires
FadeOut(b) ==
    /\ boxes[b].timer = "t500"
    /\ \A a \in 1..(b - 1) : boxes[a].timer = "none"
    /\ boxes' = [boxes EXCEPT ![b].inDom = FALSE, ![b].timer = "none"]
    /\ UNCHANGED <<page, isTransformed, run, channel, orch, renders>>

(***************************************************************************)
(* The message channel and the service worker.                             *)
(***************************************************************************)
\* sendResponse called from the .then and again from the .catch
sendResponseTwice(m, response) ==
    channel' = [channel EXCEPT ![m].state = "replied", ![m].response = response,
                               ![m].responses = @ + 2]

\* sendResponse(response) for message m
sendResponse(m, response) ==
    channel' = [channel EXCEPT ![m].state = "replied", ![m].response = response,
                               ![m].responses = @ + 1]

\* another sender's message, with an action other than "transformArticle"
SendOther(m, action) ==
    /\ m = OtherId
    /\ channel[m].state \in {"unsent", "closed"}
    /\ channel' = [channel EXCEPT ![m].state = "sent", ![m].request = [action |-> action],
                               ![m].listenerReturned = "none"]
    /\ UNCHANGED <<page, isTransformed, run, boxes, orch, renders>>

\* the message finds no receiving end: the sender's callback is called without
\* an argument (chrome.runtime.lastError is set)
NoReceiver(m) ==
    /\ m \in RunIds
    /\ channel[m].state = "sent"
    /\ channel' = [channel EXCEPT ![m].state = "replied", ![m].response = Undefined]
    /\ UNCHANGED <<page, isTransformed, run, boxes, orch, renders>>

\* Listener with both API requests issued at the start, side by side
ListenerIssuesBoth(m) ==
    /\ channel[m].state = "sent"
    /\ LET request == channel[m].request IN
         IF request.action = "transformArticle"
         THEN /\ orch' = [orch EXCEPT ![m] =
                            [IdleOrch EXCEPT
                               !.pc = "fetch1",
                               !.calls = <<MovieCall(request.articleTitle, request.articleBody),
                                           SongCall(request.articleTitle, request.articleBody)>>]]
              /\ channel' = [channel EXCEPT ![m].state = "open", ![m].listenerReturned = "true"]
         ELSE /\ channel' = [channel EXCEPT ![m].state = "closed",
                                            ![m].listenerReturned = "undefined"]
              /\ UNCHANGED orch
    /\ UNCHANGED <<page, isTransformed, run, boxes, renders>>

\* the onMessage listener, background.js lines 4-25, with transformArticleWithGemini
\* up to its first await (line 56)
Listener(m) ==
    /\ channel[m].state = "sent"
    /\ LET request == channel[m].request IN
         IF request.action = "transformArticle"
         THEN /\ orch' = [orch EXCEPT ![m] =
                            [IdleOrch EXCEPT
                               !.pc = "fetch1",
                               !.calls = <<MovieCall(request.articleTitle, request.articleBody)>>]]
              /\ channel' = [channel EXCEPT ![m].state = "open", ![m].listenerReturned = "true"]
         ELSE /\ channel' = [channel EXCEPT ![m].state = "closed",
                                            ![m].listenerReturned = "undefined"]
              /\ UNCHANGED orch
    /\ UNCHANGED <<page, isTransformed, run, boxes, renders>>

\* the catch block of lines 123-126, then the .then of lines 13-16
Catch(m, error) ==
    /\ orch' = [orch EXCEPT ![m].pc = "done", ![m].generatedMovieTitle = Null]
    /\ sendResponse(m, CatchResponse(error))

\* fetch resolves with a Response: lines 56-61 and 94-99 go on to response.json()
FetchResolve(m) ==
    /\ orch[m].pc \in {"fetch1", "fetch2"}
    /\ orch' = [orch EXCEPT ![m].pc = IF @ = "fetch1" THEN "json1" ELSE "json2"]
    /\ UNCHANGED <<page, isTransformed, run, boxes, channel, renders>>

\* fetch rejects: a network-level exception
FetchReject(m, error) ==
    /\ orch[m].pc \in {"fetch1", "fetch2"}
    /\ Catch(m, error)
    /\ UNCHANGED <<page, isTransformed, run, boxes, renders>>

\* response.json() rejects: the body is not JSON
JsonReject(m) ==
    /\ orch[m].pc \in {"json1", "json2"}
    /\ Catch(m, ParseError)
    /\ UNCHANGED <<page, isTransformed, run, boxes, renders>>

\* the title reply is parsed: lines 61-94, to the second await
MovieReply(m, movieResult) ==
    /\ orch[m].pc = "json1"
    /\ IF ExtractThrows(movieResult)
       THEN Catch(m, TrimOfUndefined)
       ELSE /\ orch' = [orch EXCEPT
                          ![m].pc = "fetch2",
                          ![m].generatedMovieTitle = Extract(movieResult, DefaultMovieTitle),
                          ![m].calls = Append(@, SongCall(channel[m].request.articleTitle,
                                                          channel[m].request.articleBody))]
            /\ UNCHANGED channel
    /\ UNCHANGED <<page, isTransformed, run, boxes, renders>>

\* the value transformArticleWithGemini resolves with when the lyrics reply is parsed
Resolution(generatedMovieTitle, songResult) ==
    IF ExtractThrows(songResult)
    THEN CatchResponse(TrimOfUndefined)
    ELSE SuccessResponse(generatedMovieTitle, Extract(songResult, DefaultSongLyrics))

\* the lyrics reply is parsed: lines 99-121, then the .then of lines 13-16
SongReply(m, songResult) ==
    /\ orch[m].pc = "json2"
    /\ orch' = [orch EXCEPT ![m].pc = "done", ![m].generatedMovieTitle = Null]
    /\ sendResponse(m, Resolution(orch[m].generatedMovieTitle, songResult))
    /\ UNCHANGED <<page, isTransformed, run, boxes, renders>>

Next ==
    \/ \E i \in RunIds : Invoke(i)
    \/ \E i \in RunIds : Receive(i)
    \/ \E b \in DOMAIN boxes : ClickClose(b)
    \/ \E b \in DOMAIN boxes : AutoDismiss(b)
    \/ \E b \in DOMAIN boxes : FadeOut(b)
    \/ \E m \in Msgs, a \in OtherActions : SendOther(m, a)
    \/ \E m \in Msgs : NoReceiver(m)
    \/ \E m \in Msgs : Listener(m)
    \/ \E m \in Msgs : FetchResolve(m)
    \/ \E m \in Msgs, e \in NetworkErrors : FetchReject(m, e)
    \/ \E m \in Msgs : JsonReject(m)
    \/ \E m \in Msgs, r \in ApiBodies : MovieReply(m, r)
    \/ \E m \in Msgs, r \in ApiBodies : SongReply(m, r)

Spec == Init /\ [][Next]_vars

(***************************************************************************)
(* The extraction by itself: the call of transformArticle at load          *)
(* (content.js line 361) on each of the extraction pages, up to its await. *)
(***************************************************************************)
ExtractInit ==
    /\ page \in ExtractPages
    /\ isTransformed = FALSE
    /\ run = [i \in RunIds |-> [pc |-> "ready", extracted |-> FALSE]]
    /\ boxes = <<>>
    /\ channel = [m \in Msgs |-> [state |-> "unsent", request |-> NoRequest,
                                  response |-> Undefined, listenerReturned |-> "none",
                                  responses |-> 0]]
    /\ orch = [m \in Msgs |-> IdleOrch]
    /\ renders = <<>>

ExtractNext == Invoke(1)

ExtractSpec == ExtractInit /\ [][ExtractNext]_vars

(***************************************************************************)
(* Properties of the content script.                                       *)
(***************************************************************************)
\* the notification elements in the document
Present(bs) == {b \in DOMAIN bs : bs[b].inDom}

\* bs is before, after a call of showMessageBox(message, type) and nothing else
Shown(before, after, message, class) ==
    /\ Len(after) = Len(before) + 1
    /\ Present(after) = {Len(after)}
    /\ after[Len(after)].message = message
    /\ after[Len(after)].class = class

\* the step is the start of invocation i of transformArticle
Invoked(i) == run[i].pc = "ready" /\ run'[i].pc # "ready"

\* the step is invocation i of transformArticle getting its reply
Received(i) == run[i].pc = "awaiting" /\ run'[i].pc # "awaiting"

\* C1: two invocations of transformArticle in one page lifetime, in any
\* interleaving and for any responses, execute updateArticleTitle and
\* updateArticleBody at most once in total.
C1_RendersAtMostOnce == Len(renders) <= 1

\* C2: while one invocation is mid-flight (its request sent, its reply not yet
\* received), a second invocation does not run the extraction and does not send
\* another request.
C2_NoSecondRequestMidFlight ==
    [][\A i \in RunIds :
          (Invoked(i) /\ \E j \in RunIds : j # i /\ run[j].pc = "awaiting")
          => (~run'[i].extracted /\ channel'[i].state = "unsent")]_vars

\* C3: when transformArticle receives a response with success = false, the page
\* (title and body) is left as it was, neither updateArticleTitle nor
\* updateArticleBody runs, a failure notification carrying the error is shown,
\* and isTransformed is left as it was: the invocation does not set it.
C3_FailureLeavesPage ==
    [][\A i \in RunIds :
          (/\ Received(i)
           /\ channel[i].response # Undefined
           /\ ~channel[i].response.success)
          => (/\ page' = page
              /\ renders' = renders
              /\ isTransformed' = isTransformed
              /\ Shown(boxes, boxes', "Transformation failed: " \o channel[i].response.error,
                       "bg-red-500"))]_vars

\* C3's case: an invocation has taken the failure branch, nothing was rendered,
\* the flag is false and the red notification is in the document
C3_Witness ==
    \E i \in RunIds :
        /\ run[i].pc = "failed"
        /\ renders = <<>> /\ ~isTransformed
        /\ \E b \in Present(boxes) : boxes[b].class = "bg-red-500"

\* what getArticleTitle / getArticleBody found is not enough to go on: the title
\* absent or empty, or the body absent
ExtractionFailed(p) ==
    \/ getArticleTitle(p) = Null
    \/ getArticleTitle(p) = <<>>
    \/ getArticleBody(p) = Null

\* C4: if extraction yields an absent or empty title or an absent body,
\* transformArticle shows a failure notification, sends no request (so that the
\* service worker issues no API request for it) and leaves the page as it was.
C4_ExtractionFailureStaysLocal ==
    /\ [][\A i \in RunIds :
            (Invoked(i) /\ ~isTransformed /\ ExtractionFailed(page))
            => (/\ run'[i].pc = "noContent"
                /\ Shown(boxes, boxes',
                         "Could not find enough article content to transform. Try a different article or newspaper.",
                         "bg-red-500")
                /\ UNCHANGED <<page, renders, isTransformed, channel, orch>>)]_vars
    /\ [](\A i \in RunIds :
            run[i].pc = "noContent"
            => (channel[i].state = "unsent" /\ orch[i].pc = "idle" /\ orch[i].calls = <<>>))

\* C4's case: the heading is only whitespace, so the title is empty, and the
\* invocation has ended with the failure notification and nothing sent
C4_Witness ==
    /\ getArticleTitle(page) = <<>>
    /\ \E i \in RunIds :
          /\ run[i].pc = "noContent"
          /\ channel[i].state = "unsent"
          /\ \E b \in Present(boxes) : boxes[b].class = "bg-red-500"

\* C10: whenever transformArticle has sent its request and the reply is not a
\* success (success = false with or without an error text, or no response object
\* at all), it shows a failure notification with the error text, "Unknown error"
\* when there is none, and completes without raising an exception.
C10_EveryFailureIsNotified ==
    [][\A i \in RunIds :
          (Received(i) /\ ~(channel[i].response # Undefined /\ channel[i].response.success))
          => (/\ run'[i].pc = "failed"
              /\ \/ /\ channel[i].response = Undefined
                    /\ Shown(boxes, boxes', "Transformation failed: Unknown error", "bg-red-500")
                 \/ /\ channel[i].response # Undefined
                    /\ Shown(boxes, boxes',
                             "Transformation failed: " \o channel[i].response.error,
                             "bg-red-500"))]_vars

\* C11: isTransformed starts false, changes only from false to true, changes
\* only in the step in which updateArticleTitle and updateArticleBody have run
\* for a response with success = true, and is never set back to false; whenever
\* it is true the page has been rendered from a successful response.
C11_FlagFollowsRender ==
    /\ [][/\ isTransformed => isTransformed'
          /\ (~isTransformed /\ isTransformed')
             => \E i \in RunIds :
                   /\ Received(i)
                   /\ IsSuccess(channel[i].response)
                   /\ renders' = Append(renders, i)
                   /\ page' = updateArticleBody(
                                 updateArticleTitle(page, channel[i].response.movieTitle),
                                 channel[i].response.songLyrics)]_vars
    /\ [](/\ renders = <<>> => ~isTransformed
          /\ isTransformed
             => \E k \in DOMAIN renders :
                   /\ run[renders[k]].pc = "rendered"
                   /\ IsSuccess(channel[renders[k]].response))

\* C11's case: the flag is true after one render, and a later invocation was
\* turned away by it
C11_Witness ==
    /\ isTransformed
    /\ Len(renders) = 1
    /\ \E i \in RunIds : run[i].pc = "skipped"

\* the step is a call of showMessageBox: an element was created
Notified == Len(boxes') = Len(boxes) + 1

\* C13: after any sequence of showMessageBox calls, clicks on the close button
\* and timer firings at most one notification element is in the document, and
\* right after a showMessageBox call the element in the document is the one the
\* call created: the one shown before has been removed.
C13_AtMostOneNotification ==
    /\ [](Cardinality(Present(boxes)) <= 1)
    /\ [][Notified
            => (/\ Present(boxes') = {Len(boxes')}
                /\ \A b \in DOMAIN boxes :
                      /\ ~boxes'[b].inDom
                      /\ boxes'[b].message = boxes[b].message
                      /\ boxes'[b].timer = boxes[b].timer)]_vars

\* C13's case: three notifications so far; the first went with its timers, the
\* second was taken out of the document with its timer still pending, and the
\* third is the one in the document
C13_Witness ==
    /\ Len(boxes) >= 3
    /\ Present(boxes) = {Len(boxes)}
    /\ \E a, b \in DOMAIN boxes :
          /\ a < b /\ b < Len(boxes)
          /\ boxes[a].timer = "none" /\ boxes[a].faded
          /\ boxes[b].timer = "t5000" /\ ~boxes[b].inDom

(***************************************************************************)
(* The page and the service worker with the timers running: a timer that   *)
(* is due is run by the event loop of the page.                            *)
(***************************************************************************)
TimerFires == \E b \in DOMAIN boxes : AutoDismiss(b) \/ FadeOut(b)

TimedSpec == Spec /\ WF_vars(TimerFires)

\* the step is a timer of notification b firing
TimerStep(b) == boxes'[b].timer # boxes[b].timer

\* C14: every notification shown is removed from the document once its delay
\* has elapsed, by its timers alone and whether or not anyone clicks: from some
\* point on every notification has had both its timers fire and is out of the
\* document.  A notification whose timers have fired is out of the document,
\* its first timer fires after 5000 ms and its second 500 ms later, and a timer
\* of one notification leaves every other notification as it is, the one that
\* replaced it too.
C14_AutoDismiss ==
    /\ <>[](\A b \in DOMAIN boxes : boxes[b].timer = "none" /\ ~boxes[b].inDom)
    /\ [](\A b \in DOMAIN boxes :
            /\ boxes[b].timer = "none" => ~boxes[b].inDom
            /\ boxes[b].timer = "t5000" => boxes[b].delay = 5000
            /\ boxes[b].timer = "t500" => boxes[b].delay = 500)
    /\ [][\A b \in DOMAIN boxes :
            TimerStep(b)
            => (/\ DOMAIN boxes' = DOMAIN boxes
                /\ \A c \in DOMAIN boxes : c # b => boxes'[c] = boxes[c]
                /\ boxes[b].timer = "t5000"
                   => (boxes'[b].timer = "t500" /\ boxes'[b].inDom = boxes[b].inDom)
                /\ boxes[b].timer = "t500"
                   => (boxes'[b].timer = "none" /\ ~boxes'[b].inDom))]_vars

\* C14's case: a notification went by its timers while the one that replaced it
\* is still in the document
C14_Witness ==
    \E a, b \in DOMAIN boxes :
        /\ a < b
        /\ boxes[a].timer = "none" /\ boxes[a].faded /\ ~boxes[a].inDom
        /\ boxes[b].inDom /\ boxes[b].timer # "none"

(***************************************************************************)
(* Properties of the extraction.                                           *)
(***************************************************************************)
\* the trimmed text of the element an h1 pattern finds, empty when it finds none
HeadingText(p, sel) ==
    IF QueryH1(p, sel) = 0 THEN <<>> ELSE Trim(p.h1s[QueryH1(p, sel)].text)

\* the heading patterns, in priority order, that yield a text
YieldingHeadings(p) ==
    SelectSeq(SelectSeq(titleSelectors, StartsWithH1), LAMBDA sel : HeadingText(p, sel) # <<>>)

\* the title as C16 describes it
ClaimedTitle(p) ==
    IF YieldingHeadings(p) # <<>> THEN HeadingText(p, YieldingHeadings(p)[1])
    ELSE IF p.ogContent # Null /\ Trim(p.ogContent) # <<>> THEN Trim(p.ogContent)
    ELSE IF Trim(p.docTitle) # <<>> THEN Trim(p.docTitle)
    ELSE Null

\* C16: getArticleTitle returns the trimmed text of the first heading pattern,
\* in priority order, whose trimmed text is not empty; with no such heading, the
\* trimmed content of the og:title tag, then the trimmed document title; null
\* when none of them yields a text.  So it never returns the empty string, a
\* heading of whitespace only does not keep the fallbacks from being tried, and
\* the title sent to the service worker is that text.
C16_TitleIsFirstNonEmptyText ==
    run[1].extracted
    => (/\ getArticleTitle(page) = ClaimedTitle(page)
        /\ getArticleTitle(page) # <<>>
        /\ run[1].pc = "awaiting" => channel[1].request.articleTitle = ClaimedTitle(page)
        /\ (run[1].pc = "noContent" /\ getArticleBody(page) # Null)
           => ClaimedTitle(page) = Null)

\* the container the extraction works in: the first element in the document for
\* the first pattern of articleBodySelectors that any element matches; 0 for none
MatchedContainer(p) ==
    LET hit(i) == {k \in DOMAIN p.nodes :
                      p.nodes[k].kind # "p" /\ p.nodes[k].sel = articleBodySelectors[i]}
        hits == {i \in DOMAIN articleBodySelectors : hit(i) # {}}
        first == CHOOSE i \in hits : \A j \in hits : i <= j
    IN  IF hits = {} THEN 0 ELSE CHOOSE k \in hit(first) : \A l \in hit(first) : k <= l

\* the trimmed texts of the paragraph elements the extraction looks at
ParagraphFragments(p) ==
    IF MatchedContainer(p) = 0
    THEN TrimAll(AllParagraphs(p.nodes))
    ELSE TrimAll(p.nodes[MatchedContainer(p)].paras)

\* the pieces of a text between single spaces
Words(text) == Cardinality({i \in DOMAIN text : text[i] = " "}) + 1

\* the length filter as C17 has it
PassesFilter(p, text) ==
    IF MatchedContainer(p) = 0
    THEN Len(text) > 100 /\ Words(text) > 10
    ELSE Len(text) > 50

\* the elements of frags at the indices in idx, in order
Pick(frags, idx) ==
    [k \in 1..Cardinality(idx) |->
        frags[CHOOSE i \in idx : Cardinality({j \in idx : j < i}) = k - 1]]

\* the first n texts with a blank line between one and the next
RECURSIVE BlankLineJoined(_, _)
BlankLineJoined(texts, n) ==
    IF n = 0 THEN <<>>
    ELSE IF n = 1 THEN texts[1]
    ELSE BlankLineJoined(texts, n - 1) \o <<NL, NL>> \o texts[n]

\* the body made of the fragments that pass the filter, absent when none does
BodyOf(p, frags) ==
    LET kept == Pick(frags, {i \in DOMAIN frags : PassesFilter(p, frags[i])})
    IN  IF kept = <<>> THEN Null ELSE BlankLineJoined(kept, Len(kept))

\* C17: getArticleBody keeps, in document order, exactly the paragraph
\* fragments that pass the length filter and joins them with blank lines: with
\* a container matched, the fragments of trimmed length above 50; with none
\* matched, those of trimmed length above 100 and of more than 10
\* space-separated words; it returns null iff no fragment is kept.
C17_BodyIsTheFilteredParagraphs ==
    run[1].extracted => getArticleBody(page) = BodyOf(page, ParagraphFragments(page))

\* the fragments with the container's own text standing in when the container
\* matched holds no paragraph element
FragmentsOrOwnText(p) ==
    IF MatchedContainer(p) # 0 /\ p.nodes[MatchedContainer(p)].paras = <<>>
    THEN <<Trim(p.nodes[MatchedContainer(p)].text)>>
    ELSE ParagraphFragments(p)

\* the filter with the threshold of 100 for the container's own text
PassesFilterOrOwnText(p, text) ==
    IF MatchedContainer(p) # 0 /\ p.nodes[MatchedContainer(p)].paras = <<>>
    THEN Len(text) > 100
    ELSE PassesFilter(p, text)

\* C17 as amended: as C17 where the container matched holds paragraph elements
\* or no container matched; where the container matched holds no paragraph
\* element its own trimmed text is the one fragment, kept iff it is longer than
\* 100 characters.  The body sent to the service worker is that text, and
\* nothing is sent when it is absent.
C17_BodyIsTheFilteredFragments ==
    run[1].extracted
    => LET frags == FragmentsOrOwnText(page)
           kept == Pick(frags, {i \in DOMAIN frags : PassesFilterOrOwnText(page, frags[i])})
           body == IF kept = <<>> THEN Null ELSE BlankLineJoined(kept, Len(kept))
       IN  /\ getArticleBody(page) = body
           /\ run[1].pc = "awaiting" => channel[1].request.articleBody = body
           /\ body = Null => run[1].pc = "noContent"

\* C17's case: in a container, a caption of 30 characters between two longer
\* paragraphs; the body sent is the two, trimmed, a blank line between them
C17_Witness ==
    /\ run[1].pc = "awaiting"
    /\ MatchedContainer(page) # 0
    /\ page.nodes[MatchedContainer(page)].paras = <<LongParagraph, Caption, WordyParagraph>>
    /\ channel[1].request.articleBody = Trim(LongParagraph) \o <<NL, NL>> \o WordyParagraph

(***************************************************************************)
(* Properties of the service worker.                                       *)
(***************************************************************************)
\* the reply carries no candidates: the list is missing or empty
NoCandidates(r) == ~r.hasCandidates \/ r.candidates = <<>>

\* the reply has a first candidate with content with a first part
FirstPartOf(r) ==
    IF /\ ~NoCandidates(r)
       /\ r.candidates[1].hasContent /\ r.candidates[1].hasParts
       /\ r.candidates[1].parts # <<>>
    THEN <<r.candidates[1].parts[1]>>
    ELSE <<>>

\* the reply is well-formed: its first part has a text
WellFormed(r) == FirstPartOf(r) # <<>> /\ FirstPartOf(r)[1].hasText

\* the first part of the reply has no text field
PartWithoutText(r) == FirstPartOf(r) # <<>> /\ ~FirstPartOf(r)[1].hasText

\* the text a field is to carry for reply r: the trimmed text of the first part
\* of the first candidate, the default for a reply without one
Expected(r, default) == IF WellFormed(r) THEN Trim(FirstPartOf(r)[1].text) ELSE default

\* the step is the title (lyrics) reply r being handed to invocation m
MovieStep(m, r) == orch[m].pc = "json1" /\ orch'[m].pc # "json1" /\ MovieReply(m, r)
SongStep(m, r) == orch[m].pc = "json2" /\ orch'[m].pc # "json2" /\ SongReply(m, r)

\* the step ends invocation m with a failure response and without a further request
Aborted(m) ==
    /\ orch'[m].pc = "done"
    /\ orch'[m].calls = orch[m].calls
    /\ channel'[m].state = "replied"
    /\ ~channel'[m].response.success

\* C5: an API reply without candidates does not fail the transform.  For the
\* title call the title is the default "A Filmy Twist" and the lyrics request
\* goes out; for the lyrics call the response is success = true with the default
\* "A melodious tale awaits..."; and the other field is the one its own reply
\* gives: the title taken from the title reply is the movieTitle of the
\* response, beside the lyrics the lyrics reply gives.
C5_NoCandidatesGivesDefault ==
    [][\A m \in Msgs, r \in ApiBodies :
          /\ (MovieStep(m, r) /\ ~PartWithoutText(r))
             => (/\ orch'[m].pc = "fetch2"
                 /\ orch'[m].generatedMovieTitle = Expected(r, DefaultMovieTitle)
                 /\ NoCandidates(r) => orch'[m].generatedMovieTitle = DefaultMovieTitle
                 /\ channel'[m] = channel[m])
          /\ (SongStep(m, r) /\ ~PartWithoutText(r))
             => (/\ channel'[m].response =
                       [success |-> TRUE,
                        movieTitle |-> orch[m].generatedMovieTitle,
                        songLyrics |-> Expected(r, DefaultSongLyrics)]
                 /\ NoCandidates(r) => channel'[m].response.songLyrics = DefaultSongLyrics)
          /\ orch[m].pc \in {"fetch2", "json2"} /\ orch'[m].pc \in {"fetch2", "json2"}
             => orch'[m].generatedMovieTitle = orch[m].generatedMovieTitle]_vars

\* C5's case: one response with the default title beside generated lyrics, and
\* one with a generated title beside the default lyrics
C5_Witness ==
    \E m, n \in Msgs :
        /\ channel[m].state = "replied" /\ channel[n].state = "replied"
        /\ channel[m].response =
              [success |-> TRUE, movieTitle |-> DefaultMovieTitle, songLyrics |-> Trim(TextL)]
        /\ channel[n].response =
              [success |-> TRUE, movieTitle |-> Trim(TextM), songLyrics |-> DefaultSongLyrics]

\* the malformed shapes of a parsed reply that C6 lists
Malformed(r) ==
    \/ NoCandidates(r)
    \/ ~r.candidates[1].hasContent
    \/ ~r.candidates[1].hasParts
    \/ r.candidates[1].parts = <<>>
    \/ ~r.candidates[1].parts[1].hasText

\* C6: for every malformed shape of a parsed reply (candidates absent or empty,
\* first candidate without content, content without parts, empty parts, a first
\* part without a text field) the generation step takes its default and the
\* transform still returns success = true.
C6_EveryMalformedShapeGivesDefault ==
    [][\A m \in Msgs, r \in ApiBodies :
          /\ (MovieStep(m, r) /\ Malformed(r))
             => (/\ orch'[m].pc = "fetch2"
                 /\ orch'[m].generatedMovieTitle = DefaultMovieTitle
                 /\ channel'[m] = channel[m])
          /\ (SongStep(m, r) /\ Malformed(r))
             => (/\ channel'[m].response.success
                 /\ channel'[m].response.songLyrics = DefaultSongLyrics)]_vars

\* C7: a network-level exception during either API request makes the response
\* success = false with the exception's message as error, or a non-empty generic
\* string when it has none; the response carries no movieTitle or songLyrics, no
\* request is issued again, and the finished invocation never answers anew.
C7_NetworkErrorFails ==
    [][\A m \in Msgs :
          /\ \A e \in NetworkErrors :
                (orch[m].pc \in {"fetch1", "fetch2"} /\ FetchReject(m, e))
                => (/\ Aborted(m)
                    /\ DOMAIN channel'[m].response = {"success", "error"}
                    /\ channel'[m].response.error # ""
                    /\ e.message # "" => channel'[m].response.error = e.message
                    /\ channel'[m].responses = channel[m].responses + 1)
          /\ orch[m].pc = "done"
                => (/\ orch'[m] = orch[m]
                    /\ channel'[m].response = channel[m].response
                    /\ channel'[m].responses = channel[m].responses)]_vars

\* C7's case: the lyrics request was rejected with an exception without a
\* message, and the response carries the generic string
C7_Witness ==
    \E m \in Msgs :
        /\ orch[m].pc = "done" /\ Len(orch[m].calls) = 2
        /\ channel[m].state = "replied"
        /\ channel[m].response =
              [success |-> FALSE, error |-> "Network or API response parsing error."]

\* C8: the lyrics request is issued in every execution of the generation
\* routine, whatever the outcome of the title request.
C8_LyricsRequestAlwaysIssued ==
    \A m \in Msgs : orch[m].pc = "done" => Len(orch[m].calls) = 2

\* C8 as amended: the lyrics request is issued exactly when the title reply was
\* received and parsed and taking its text raised no exception, whatever else
\* the reply holds (an error body, no candidates); an exception in the title
\* request (a network error, a body that is not JSON, a first part without text)
\* ends the transform with a failure response and without a lyrics request.
C8_LyricsRequestAfterParsedTitle ==
    [][\A m \in Msgs :
          /\ \A r \in ApiBodies :
                /\ (MovieStep(m, r) /\ ~PartWithoutText(r))
                   => (/\ orch'[m].pc = "fetch2"
                       /\ Len(orch'[m].calls) = 2
                       /\ orch'[m].calls[1].prompt = "movie"
                       /\ orch'[m].calls[2].prompt = "song"
                       /\ channel'[m] = channel[m])
                /\ (MovieStep(m, r) /\ PartWithoutText(r))
                   => (Aborted(m) /\ Len(orch'[m].calls) = 1)
          /\ (orch[m].pc \in {"fetch1", "json1"} /\ orch'[m].pc = "done")
                => (Aborted(m) /\ Len(orch'[m].calls) = 1)
          /\ Len(orch'[m].calls) > Len(orch[m].calls)
                => (orch[m].pc \in {"idle", "json1"} /\ orch'[m].pc \in {"fetch1", "fetch2"})]_vars

\* C8's case: the title reply gave no title (an error body, say), the default
\* stands, and the lyrics request is out
C8_Witness ==
    \E m \in Msgs :
        /\ orch[m].pc = "fetch2"
        /\ orch[m].generatedMovieTitle = DefaultMovieTitle
        /\ Len(orch[m].calls) = 2 /\ orch[m].calls[2].prompt = "song"

\* the trimmed text of the first part of the first candidate of a well-formed reply
FirstText(r) == Trim(r.candidates[1].parts[1].text)

\* C12: when both API replies are well-formed the response is success = true
\* with movieTitle the trimmed text of the first part of the first candidate of
\* the title reply and songLyrics the trimmed text of the first part of the
\* first candidate of the lyrics reply: the title is taken when the title reply
\* is parsed, is kept as it is until the lyrics reply is parsed, and goes into
\* movieTitle; further parts and candidates have no influence, and the two
\* fields are not swapped.
C12_FirstCandidateTextsInTheirFields ==
    [][\A m \in Msgs :
          /\ \A r \in ApiBodies :
                /\ (MovieStep(m, r) /\ WellFormed(r))
                   => (/\ orch'[m].pc = "fetch2"
                       /\ orch'[m].generatedMovieTitle = FirstText(r))
                /\ (SongStep(m, r) /\ WellFormed(r))
                   => (/\ channel'[m].state = "replied"
                       /\ DOMAIN channel'[m].response = {"success", "movieTitle", "songLyrics"}
                       /\ channel'[m].response.success
                       /\ channel'[m].response.movieTitle = orch[m].generatedMovieTitle
                       /\ channel'[m].response.songLyrics = FirstText(r))
          /\ (orch[m].pc = "fetch2" /\ orch'[m].pc # "done")
             => orch'[m].generatedMovieTitle = orch[m].generatedMovieTitle
          /\ (orch[m].pc = "json2" /\ orch'[m].pc # "done")
             => orch'[m].generatedMovieTitle = orch[m].generatedMovieTitle]_vars

\* C12's case: two responses from well-formed replies, the texts of the two
\* replies each way round; the reply with two candidates and two parts gives
\* the text of its first part only
C12_Witness ==
    \E m, n \in Msgs :
        /\ channel[m].state = "replied" /\ channel[n].state = "replied"
        /\ channel[m].response =
              [success |-> TRUE, movieTitle |-> Trim(TextM), songLyrics |-> Trim(TextL)]
        /\ channel[n].response =
              [success |-> TRUE, movieTitle |-> Trim(TextL), songLyrics |-> Trim(TextM)]
        /\ Trim(TextM) # Trim(TextL)

\* the API requests of invocation m whose reply has not been received and parsed
Outstanding(m) ==
    Len(orch[m].calls) - (IF orch[m].pc \in {"fetch2", "json2"} THEN 1 ELSE 0)
                       - (IF orch[m].pc = "done" THEN Len(orch[m].calls) ELSE 0)

\* C15: within one invocation the two API requests are not in flight together:
\* the lyrics request is issued only in the step in which the title reply has
\* been received and parsed; an invocation issues at most two requests, the
\* title request then the lyrics request, exactly these two when it answers
\* success = true, and issues none of them again.
C15_RequestsInSequence ==
    /\ [](\A m \in Msgs :
            /\ Len(orch[m].calls) <= 2
            /\ Outstanding(m) <= 1
            /\ orch[m].pc = "idle" => orch[m].calls = <<>>
            /\ orch[m].pc \in {"fetch1", "json1"} => Len(orch[m].calls) = 1
            /\ orch[m].pc \in {"fetch2", "json2"} => Len(orch[m].calls) = 2
            /\ Len(orch[m].calls) >= 1 => orch[m].calls[1].prompt = "movie"
            /\ Len(orch[m].calls) = 2 => orch[m].calls[2].prompt = "song"
            /\ (channel[m].responses = 1 /\ channel[m].response.success)
               => (orch[m].pc = "done" /\ Len(orch[m].calls) = 2))
    /\ [][\A m \in Msgs :
            orch'[m].calls # orch[m].calls
            => \/ /\ orch[m].pc = "idle" /\ orch'[m].pc = "fetch1"
                  /\ Len(orch'[m].calls) = 1
               \/ /\ \E r \in ApiBodies : MovieStep(m, r)
                  /\ orch'[m].pc = "fetch2"
                  /\ Len(orch'[m].calls) = 2
                  /\ orch'[m].calls[1] = orch[m].calls[1]]_vars

\* C15's case: one invocation has answered success = true after its two
\* requests, another has its lyrics request in flight, the title reply parsed
C15_Witness ==
    \E m, n \in Msgs :
        /\ orch[m].pc = "done" /\ channel[m].response # Undefined
        /\ channel[m].response.success /\ Len(orch[m].calls) = 2
        /\ orch[n].pc = "fetch2" /\ Outstanding(n) = 1

(***************************************************************************)
(* The service worker by itself, and under fair scheduling: every API      *)
(* request is settled (resolved or rejected), and so is the parsing of     *)
(* every reply.                                                            *)
(***************************************************************************)
FetchSettles(m) == FetchResolve(m) \/ \E e \in NetworkErrors : FetchReject(m, e)

JsonSettles(m) ==
    \/ JsonReject(m)
    \/ \E r \in ApiBodies : MovieReply(m, r)
    \/ \E r \in ApiBodies : SongReply(m, r)

\* the steps of the service worker and of the senders of its messages.  The
\* steps left out are those of the page once a message is sent: the callback
\* that takes the response, and the close button and the two timers of a
\* notification.  No step of the service worker reads what they change, and
\* with the responses never taken no invocation is skipped, so the service
\* worker is sent every message the page may send it.
WorkerNext ==
    \/ \E i \in RunIds : Invoke(i)
    \/ \E m \in Msgs, a \in OtherActions : SendOther(m, a)
    \/ \E m \in Msgs : Listener(m)
    \/ \E m \in Msgs : FetchResolve(m)
    \/ \E m \in Msgs, e \in NetworkErrors : FetchReject(m, e)
    \/ \E m \in Msgs : JsonReject(m)
    \/ \E m \in Msgs, r \in ApiBodies : MovieReply(m, r)
    \/ \E m \in Msgs, r \in ApiBodies : SongReply(m, r)

WorkerSpec == Init /\ [][WorkerNext]_vars

\* an orchestrator awaits one promise at a time, the request or the parsing
Settles(m) == FetchSettles(m) \/ JsonSettles(m)

FairSpec == WorkerSpec /\ \A m \in Msgs : WF_vars(Settles(m))

\* what C9 says of message m in every state
AnsweredOnce(m) ==
    /\ channel[m].responses <= 1
    /\ channel[m].listenerReturned = "true"
          <=> (channel[m].request.action = "transformArticle"
               /\ channel[m].state \in {"open", "replied", "closed"}
               /\ orch[m].pc # "idle")
    /\ channel[m].listenerReturned = "undefined"
          <=> (channel[m].request.action \notin {"none", "transformArticle"}
               /\ channel[m].state = "closed")
    /\ channel[m].listenerReturned # "true"
          => (channel[m].responses = 0 /\ orch[m].pc = "idle")
    /\ channel[m].responses = 1
          => \/ /\ DOMAIN channel[m].response = {"success", "movieTitle", "songLyrics"}
                /\ channel[m].response.success
             \/ /\ DOMAIN channel[m].response = {"success", "error"}
                /\ ~channel[m].response.success
    /\ channel[m].responses = 1 <=> orch[m].pc = "done"

\* C9: for every inbound message with action "transformArticle" the listener
\* returns true and, every API request being settled, exactly one response is
\* eventually sent, {success: true, movieTitle, songLyrics} or {success: false,
\* error}; for a message with another action no response is sent and the
\* listener does not return true.
C9_ExactlyOneResponse ==
    /\ [](\A m \in Msgs : AnsweredOnce(m))
    /\ <>[](\A m \in Msgs :
               channel[m].listenerReturned = "true" => channel[m].responses = 1)

\* C9's case: one message answered once, and a message with another action
\* dropped by the listener
C9_Witness ==
    \E m, n \in Msgs :
        /\ channel[m].listenerReturned = "true" /\ channel[m].responses = 1
        /\ channel[n].listenerReturned = "undefined" /\ channel[n].responses = 0

====
